---- MODULE Spec2Model ----
(***************************************************************************)
(* Cost roll-up of the restaurant costing tool: the unit conversion        *)
(* service of utils.py and the models and write routes of app.py.          *)
(*                                                                         *)
(* Python floats are IEEE-754 binary64 values.  They are modelled exactly: *)
(* a float is a sign, a 53-bit significand and a binary exponent, and      *)
(* every arithmetic operation rounds its exact result to nearest, ties to  *)
(* even.  Significands exceed the integers of TLC, so they are kept as     *)
(* little-endian sequences of 15-bit limbs.  Exponents stay far from the   *)
(* binary64 limits for the values used here, so subnormals, infinities and *)
(* NaN are not modelled.                                                   *)
(*                                                                         *)
(* A behaviour of Spec is one run of the server process, from its first    *)
(* request on, with the requests of a signed-in session.  A behaviour of   *)
(* UtilSpec is one call of a function of utils.py.                         *)
(***************************************************************************)
EXTENDS Integers, Sequences, FiniteSets, TLC

\* ------------------------------------------------------------------------
\* Unsigned big integers: little-endian limb sequences without high zeros.
\* ------------------------------------------------------------------------

LimbBits == 15

Base == 2 ^ LimbBits

MantBits == 53

RECURSIVE BTrim(_)
BTrim(a) ==
    IF a = <<>> THEN a
    ELSE IF a[Len(a)] = 0 THEN BTrim(SubSeq(a, 1, Len(a) - 1))
    ELSE a

BZeros(n) == [i \in 1..n |-> 0]

RECURSIVE BAddC(_, _, _)
BAddC(a, b, c) ==
    IF a = <<>> /\ b = <<>> THEN (IF c = 0 THEN <<>> ELSE <<c>>)
    ELSE LET x == IF a = <<>> THEN 0 ELSE Head(a)
             y == IF b = <<>> THEN 0 ELSE Head(b)
             s == x + y + c
         IN  <<s % Base>> \o BAddC(IF a = <<>> THEN a ELSE Tail(a),
                                   IF b = <<>> THEN b ELSE Tail(b),
                                   s \div Base)

BAdd(a, b) == BAddC(a, b, 0)

\* a - b - c for a >= b + c, before trimming
RECURSIVE BSubC(_, _, _)
BSubC(a, b, c) ==
    IF a = <<>> THEN <<>>
    ELSE LET y == IF b = <<>> THEN 0 ELSE Head(b)
             d == Head(a) - y - c
         IN  <<d % Base>> \o BSubC(Tail(a),
                                   IF b = <<>> THEN b ELSE Tail(b),
                                   IF d < 0 THEN 1 ELSE 0)

BSub(a, b) == BTrim(BSubC(a, b, 0))

\* -1, 0, 1 as a <, =, > b, comparing the limbs from position i downwards
RECURSIVE BCmpFrom(_, _, _)
BCmpFrom(a, b, i) ==
    IF i = 0 THEN 0
    ELSE IF a[i] < b[i] THEN -1
    ELSE IF a[i] > b[i] THEN 1
    ELSE BCmpFrom(a, b, i - 1)

BCmp(a, b) ==
    IF Len(a) < Len(b) THEN -1
    ELSE IF Len(a) > Len(b) THEN 1
    ELSE BCmpFrom(a, b, Len(a))

RECURSIVE BMulSmallC(_, _, _)
BMulSmallC(a, k, c) ==
    IF a = <<>> THEN (IF c = 0 THEN <<>> ELSE <<c>>)
    ELSE LET p == Head(a) * k + c
         IN  <<p % Base>> \o BMulSmallC(Tail(a), k, p \div Base)

BMulSmall(a, k) == BTrim(BMulSmallC(a, k, 0))

RECURSIVE BMul(_, _)
BMul(a, b) ==
    IF a = <<>> \/ b = <<>> THEN <<>>
    ELSE BTrim(BAdd(BMulSmallC(a, Head(b), 0), <<0>> \o BMul(a, Tail(b))))

\* a * 2^n
BShl(a, n) ==
    IF a = <<>> THEN a
    ELSE BZeros(n \div LimbBits) \o BMulSmall(a, 2 ^ (n % LimbBits))

\* floor(a / 2^n)
BShr(a, n) ==
    LET k == n \div LimbBits
        d == 2 ^ (n % LimbBits)
        h == IF k >= Len(a) THEN <<>> ELSE SubSeq(a, k + 1, Len(a))
    IN  BTrim([i \in 1..Len(h) |->
                 (h[i] \div d)
                 + (IF i < Len(h) THEN (h[i + 1] % d) * (Base \div d) ELSE 0)])

RECURSIVE SmallBitLen(_)
SmallBitLen(k) == IF k = 0 THEN 0 ELSE 1 + SmallBitLen(k \div 2)

BBitLen(a) ==
    IF a = <<>> THEN 0
    ELSE LimbBits * (Len(a) - 1) + SmallBitLen(a[Len(a)])

BIsOdd(a) == a # <<>> /\ a[1] % 2 = 1

BOne == <<1>>

\* The quotient digit floor(r / b) for r < b * Base, where the top limb of b
\* is at least Base / 2: the estimate from the two top limbs of r and the top
\* limb of b is at most 2 too large and is lowered until it fits.
RECURSIVE BFitDigit(_, _, _)
BFitDigit(r, b, d) ==
    IF d > 0 /\ BCmp(BMulSmall(b, d), r) > 0 THEN BFitDigit(r, b, d - 1) ELSE d

BQuotDigit(r, b) ==
    LET n    == Len(b)
        top2 == IF Len(r) > n THEN r[n + 1] * Base + r[n] ELSE r[n]
        est  == top2 \div b[n]
    IN  IF BCmp(r, b) < 0 THEN 0
        ELSE BFitDigit(r, b, IF est > Base - 1 THEN Base - 1 ELSE est)

\* one step of long division by b: the limb w is brought down to the
\* remainder st[2] and the next quotient digit goes below the quotient st[1]
BDivLimb(b, w, st) ==
    LET r == BTrim(<<w>> \o st[2])
        d == BQuotDigit(r, b)
    IN  <<BTrim(<<d>> \o st[1]), BSub(r, BMulSmall(b, d))>>

\* long division of the limbs a[i], a[i-1], .. a[1] after st = <<q, r>>.
\* The loop keeps r < b; the test of it never fails, and evaluating it keeps
\* st computed at every step instead of as one deferred expression.
RECURSIVE BDivLimbs(_, _, _, _)
BDivLimbs(a, b, i, st) ==
    IF i = 0 \/ BCmp(st[2], b) >= 0 THEN st
    ELSE BDivLimbs(a, b, i - 1, BDivLimb(b, a[i], st))

\* <<floor(a / b), a mod b>> for b > 0: both are scaled so that the top limb
\* of the divisor has its high bit set, which leaves the quotient unchanged
BDivMod(a, b) ==
    LET sh == LimbBits - SmallBitLen(b[Len(b)])
        an == BShl(a, sh)
        st == BDivLimbs(an, BShl(b, sh), Len(an), <<<<>>, <<>>>>)
    IN  <<st[1], BShr(st[2], sh)>>

\* a decimal digit sequence (most significant first) as a big integer
RECURSIVE BFromDigits(_)
BFromDigits(ds) ==
    IF ds = <<>> THEN <<>>
    ELSE BAdd(BMulSmall(BFromDigits(SubSeq(ds, 1, Len(ds) - 1)), 10),
              IF ds[Len(ds)] = 0 THEN <<>> ELSE <<ds[Len(ds)]>>)

RECURSIVE BPow10(_)
BPow10(k) == IF k = 0 THEN BOne ELSE BMulSmall(BPow10(k - 1), 10)

\* ------------------------------------------------------------------------
\* binary64 values: (-1)^sgn * man * 2^exp with 2^52 <= man < 2^53, or zero.
\* ------------------------------------------------------------------------

Flt(s, m, e) == [sgn |-> s, man |-> m, exp |-> e]

\* what an expression yields besides a float: a raised exception, or None
Raise(name) == [exc |-> name]

None == [none |-> TRUE]

IsFloat(x) == "man" \in DOMAIN x

IsExc(x) == "exc" \in DOMAIN x

FZero(s) == Flt(s, <<>>, 0)

IsZero(x) == x.man = <<>>

\* the exact value (-1)^s * (m + f) * 2^e, 0 <= f < 1 and f > 0 iff sticky,
\* rounded to nearest, ties to even
FRound(s, m, e, sticky) ==
    LET len == BBitLen(m)
    IN  IF m = <<>> THEN FZero(s)
        ELSE IF len <= MantBits
             THEN Flt(s, BShl(m, MantBits - len), e - (MantBits - len))
        ELSE LET sh   == len - MantBits
                 q    == BShr(m, sh)
                 rem  == BSub(m, BShl(q, sh))
                 half == BShl(BOne, sh - 1)
                 c    == BCmp(rem, half)
                 up   == c > 0 \/ (c = 0 /\ (sticky \/ BIsOdd(q)))
                 q2   == IF up THEN BAdd(q, BOne) ELSE q
             IN  IF BBitLen(q2) > MantBits
                 THEN Flt(s, BShr(q2, 1), e + sh + 1)
                 ELSE Flt(s, q2, e + sh)

\* the correctly rounded quotient of the integers n / d, scaled by 2^e
FRoundRat(s, n, d, e) ==
    LET need == (MantBits + 2) + BBitLen(d) - BBitLen(n)
        k    == IF need > 0 THEN need ELSE 0
        qr   == BDivMod(BShl(n, k), d)
    IN  FRound(s, qr[1], e - k, qr[2] # <<>>)

FNeg(x) == Flt(1 - x.sgn, x.man, x.exp)

FMul(x, y) ==
    LET s == (x.sgn + y.sgn) % 2
    IN  IF IsZero(x) \/ IsZero(y) THEN FZero(s)
        ELSE FRound(s, BMul(x.man, y.man), x.exp + y.exp, FALSE)

\* x / y for y # 0 (Python raises ZeroDivisionError for y = 0)
FDiv(x, y) ==
    LET s == (x.sgn + y.sgn) % 2
    IN  IF IsZero(y) THEN Raise("ZeroDivisionError")
        ELSE IF IsZero(x) THEN FZero(s)
        ELSE FRoundRat(s, x.man, y.man, x.exp - y.exp)

\* -1, 0, 1 as |x| <, =, > |y|
FCmpAbs(x, y) ==
    IF IsZero(x) THEN (IF IsZero(y) THEN 0 ELSE -1)
    ELSE IF IsZero(y) THEN 1
    ELSE IF x.exp < y.exp THEN -1
    ELSE IF x.exp > y.exp THEN 1
    ELSE BCmp(x.man, y.man)

FAdd(x, y) ==
    IF IsZero(x) /\ IsZero(y) THEN FZero(IF x.sgn = 1 /\ y.sgn = 1 THEN 1 ELSE 0)
    ELSE IF IsZero(x) THEN y
    ELSE IF IsZero(y) THEN x
    ELSE LET e  == IF x.exp < y.exp THEN x.exp ELSE y.exp
             mx == BShl(x.man, x.exp - e)
             my == BShl(y.man, y.exp - e)
         IN  IF x.sgn = y.sgn THEN FRound(x.sgn, BAdd(mx, my), e, FALSE)
             ELSE LET c == BCmp(mx, my)
                  IN  IF c = 0 THEN FZero(0)
                      ELSE IF c > 0 THEN FRound(x.sgn, BSub(mx, my), e, FALSE)
                      ELSE FRound(y.sgn, BSub(my, mx), e, FALSE)

FSub(x, y) == FAdd(x, FNeg(y))

\* Python's ==, <, > on floats (0.0 == -0.0)
FEq(x, y) == (IsZero(x) /\ IsZero(y)) \/ x = y

\* a float's truth value: false exactly for 0.0 and -0.0
Truthy(x) == ~IsZero(x)

\* the float that a decimal literal denotes: digits ds scaled by 10^(-scale)
Dec(ds, scale) ==
    LET n == BFromDigits(ds)
    IN  IF n = <<>> THEN FZero(0) ELSE FRoundRat(0, n, BPow10(scale), 0)

\* ------------------------------------------------------------------------
\* utils.py
\* ------------------------------------------------------------------------

F0 == FZero(0)

\* the float literals of utils.py as binary64 values; FactorLiterals states
\* that they are the values the decimal literals denote
F1 == Flt(0, <<0, 0, 0, 128>>, -52)

WEIGHT_FACTORS ==
    [g  |-> Flt(0, <<0, 0, 0, 128>>, -52),
     kg |-> Flt(0, <<0, 0, 0, 250>>, -43),
     oz |-> Flt(0, <<4635, 12782, 26089, 226>>, -48),
     lb |-> Flt(0, <<4635, 12782, 26089, 226>>, -44)]

VOLUME_FACTORS ==
    [ml |-> Flt(0, <<0, 0, 0, 128>>, -52),
     l  |-> Flt(0, <<0, 0, 0, 250>>, -43)]

FactorLiterals ==
    /\ F1 = Dec(<<1>>, 0)
    /\ WEIGHT_FACTORS.g = Dec(<<1>>, 0)
    /\ WEIGHT_FACTORS.kg = Dec(<<1, 0, 0, 0>>, 0)
    /\ WEIGHT_FACTORS.oz = Dec(<<2, 8, 3, 4, 9, 5, 2, 3, 1, 2, 5>>, 9)
    /\ WEIGHT_FACTORS.lb = Dec(<<4, 5, 3, 5, 9, 2, 3, 7>>, 5)
    /\ VOLUME_FACTORS.ml = Dec(<<1>>, 0)
    /\ VOLUME_FACTORS.l = Dec(<<1, 0, 0, 0>>, 0)

\* the unit strings of the model, and str.lower() on them
UnitStrings == {"g", "kg", "oz", "lb", "ml", "l", "cup", "KG", "Oz", "ML"}

Lower(u) ==
    CASE u = "KG" -> "kg"
      [] u = "Oz" -> "oz"
      [] u = "ML" -> "ml"
      [] OTHER    -> u

\* dict.get(key) and the operator `or`
DictGet(d, key) == IF key \in DOMAIN d THEN d[key] ELSE None

PyOr(a, b) == IF a = None \/ (IsFloat(a) /\ ~Truthy(a)) THEN b ELSE a

\* same_dimension without the partition: any two known units match
same_dimension_any(u1, u2) ==
    LET a == Lower(u1)
        b == Lower(u2)
        known == DOMAIN WEIGHT_FACTORS \cup DOMAIN VOLUME_FACTORS
    IN  a \in known /\ b \in known

same_dimension(u1, u2) ==
    LET a == Lower(u1)
        b == Lower(u2)
    IN  (a \in DOMAIN WEIGHT_FACTORS /\ b \in DOMAIN WEIGHT_FACTORS)
        \/ (a \in DOMAIN VOLUME_FACTORS /\ b \in DOMAIN VOLUME_FACTORS)

_to_base(value, unit) ==
    LET u == Lower(unit)
    IN  IF u \in DOMAIN WEIGHT_FACTORS THEN FMul(value, WEIGHT_FACTORS[u])
        ELSE IF u \in DOMAIN VOLUME_FACTORS THEN FMul(value, VOLUME_FACTORS[u])
        ELSE Raise("ValueError")

\* convert without the dimension check: None as a divisor is a TypeError
convert_unchecked(value, from_unit, to_unit) ==
    LET f == Lower(from_unit)
        t == Lower(to_unit)
    IN  IF f = t THEN value
        ELSE LET base == _to_base(value, f)
                 factor == PyOr(DictGet(WEIGHT_FACTORS, t),
                                DictGet(VOLUME_FACTORS, t))
             IN  IF IsExc(base) THEN base
                 ELSE IF factor = None THEN Raise("TypeError")
                 ELSE FDiv(base, factor)

convert(value, from_unit, to_unit) ==
    LET f == Lower(from_unit)
        t == Lower(to_unit)
    IN  IF f = t THEN value
        ELSE IF ~same_dimension(f, t) THEN Raise("ValueError")
        ELSE LET base == _to_base(value, f)
             IN  IF IsExc(base) THEN base
                 ELSE FDiv(base, PyOr(DictGet(WEIGHT_FACTORS, t),
                                      DictGet(VOLUME_FACTORS, t)))

unit_cost_in(unit_cost, item_unit, target_unit) ==
    IF Lower(item_unit) = Lower(target_unit) THEN unit_cost
    ELSE LET one_target_in_item == convert(F1, target_unit, item_unit)
         IN  IF IsExc(one_target_in_item) THEN one_target_in_item
             ELSE FMul(unit_cost, one_target_in_item)

\* ------------------------------------------------------------------------
\* float(), int 0 and the builtin sum()
\* ------------------------------------------------------------------------

\* the binary64 value of each decimal numeral the model writes or parses;
\* Numerals states that it is the value the numeral denotes
Numeral(text) ==
    CASE text = "0"       -> FZero(0)
      [] text = "1"       -> Flt(0, <<0, 0, 0, 128>>, -52)
      [] text = "-1"      -> Flt(1, <<0, 0, 0, 128>>, -52)
      [] text = "2"       -> Flt(0, <<0, 0, 0, 128>>, -51)
      [] text = "3"       -> Flt(0, <<0, 0, 0, 192>>, -51)
      [] text = "1.5"     -> Flt(0, <<0, 0, 0, 192>>, -52)
      [] text = "2.5"     -> Flt(0, <<0, 0, 0, 160>>, -51)
      [] text = "10"      -> Flt(0, <<0, 0, 0, 160>>, -49)
      [] text = "40"      -> Flt(0, <<0, 0, 0, 160>>, -47)
      [] text = "180"     -> Flt(0, <<0, 0, 0, 180>>, -45)
      [] text = "500"     -> Flt(0, <<0, 0, 0, 250>>, -44)
      [] text = "1000"    -> Flt(0, <<0, 0, 0, 250>>, -43)
      [] text = "18144"   -> Flt(0, <<0, 0, 24576, 141>>, -38)
      [] text = "0.003"   -> Flt(0, <<32506, 30932, 19922, 196>>, -61)
      [] text = "0.004"   -> Flt(0, <<10748, 9699, 2359, 131>>, -60)
      [] text = "0.18"    -> Flt(0, <<22282, 24903, 10485, 184>>, -55)
      [] text = "2.50"    -> Flt(0, <<0, 0, 0, 160>>, -51)
      [] text = "16.99"   -> Flt(0, <<2621, 18350, 30146, 135>>, -48)

NumeralTexts ==
    {"0", "1", "-1", "2", "3", "1.5", "2.5", "10", "40", "180", "500", "1000", "18144",
     "0.003", "0.004", "0.18", "2.50", "16.99"}

Numerals ==
    /\ Numeral("0") = Dec(<<0>>, 0)
    /\ Numeral("1") = Dec(<<1>>, 0)
    /\ Numeral("-1") = FNeg(Dec(<<1>>, 0))
    /\ Numeral("2") = Dec(<<2>>, 0)
    /\ Numeral("3") = Dec(<<3>>, 0)
    /\ Numeral("1.5") = Dec(<<1, 5>>, 1)
    /\ Numeral("2.5") = Dec(<<2, 5>>, 1)
    /\ Numeral("10") = Dec(<<1, 0>>, 0)
    /\ Numeral("40") = Dec(<<4, 0>>, 0)
    /\ Numeral("180") = Dec(<<1, 8, 0>>, 0)
    /\ Numeral("500") = Dec(<<5, 0, 0>>, 0)
    /\ Numeral("1000") = Dec(<<1, 0, 0, 0>>, 0)
    /\ Numeral("18144") = Dec(<<1, 8, 1, 4, 4>>, 0)
    /\ Numeral("0.003") = Dec(<<3>>, 3)
    /\ Numeral("0.004") = Dec(<<4>>, 3)
    /\ Numeral("0.18") = Dec(<<1, 8>>, 2)
    /\ Numeral("2.50") = Dec(<<2, 5, 0>>, 2)
    /\ Numeral("16.99") = Dec(<<1, 6, 9, 9>>, 2)

\* float(text): the texts that forms and CSV cells carry in this model are
\* the numerals above; any other text is not a number and raises ValueError
PyFloat(text) ==
    IF text \in NumeralTexts THEN Numeral(text) ELSE Raise("ValueError")

\* sum(values) over a sequence of floats.  The start value is the int 0, so
\* the empty sum is 0 and the first step is 0 + values[1].  An element that
\* raises ends the sum with its exception.  CPython up to 3.11 adds from left
\* to right; from 3.12 it adds floats with Neumaier's compensation.
RECURSIVE SumNaive(_, _)
SumNaive(acc, values) ==
    IF values = <<>> THEN acc
    ELSE IF IsExc(Head(values)) THEN Head(values)
    ELSE SumNaive(FAdd(acc, Head(values)), Tail(values))

RECURSIVE SumNeumaier(_, _, _)
SumNeumaier(f_result, c, values) ==
    IF values = <<>> THEN (IF Truthy(c) THEN FAdd(f_result, c) ELSE f_result)
    ELSE IF IsExc(Head(values)) THEN Head(values)
    ELSE LET x == Head(values)
             t == FAdd(f_result, x)
             d == IF FCmpAbs(f_result, x) >= 0
                  THEN FAdd(FSub(f_result, t), x)
                  ELSE FAdd(FSub(x, t), f_result)
         IN  SumNeumaier(t, FAdd(c, d), Tail(values))

PySum(impl, values) ==
    IF values = <<>> THEN F0
    ELSE IF IsExc(Head(values)) THEN Head(values)
    ELSE IF impl = "neumaier"
         THEN SumNeumaier(FAdd(F0, Head(values)), F0, Tail(values))
         ELSE SumNaive(F0, values)

\* x + y where either may have raised (the left operand is evaluated first)
PyAdd(x, y) == IF IsExc(x) THEN x ELSE IF IsExc(y) THEN y ELSE FAdd(x, y)

\* ------------------------------------------------------------------------
\* app.py: the database and the models
\* ------------------------------------------------------------------------

VARIABLES
    backend,              \* the database DATABASE_URL selects: "sqlite" without
                          \* it, "postgres" with it
    sum_impl,             \* the interpreter's sum(): "naive" or "neumaier"
    tables_created,       \* app._tables_created
    requests,             \* the requests the process has served
    inventory,            \* InventoryItem rows: id -> [name, unit, unit_cost]
    batches,              \* BatchRecipe rows: id -> [name, yield_qty, yield_unit]
    batch_ingredients,    \* BatchIngredient rows: id -> [batch_id, item_id, qty, unit]
    menu_items,           \* MenuItem rows: id -> [name, price]
    menu_ingredients,     \* MenuIngredient rows: id -> [menu_id, item_id, qty, unit]
    menu_batch_portions,  \* MenuBatchPortion rows: id -> [menu_id, batch_id,
                          \*                               portion_qty, portion_unit]
    seq,                  \* postgres: the last value of each table's id sequence
    call,                 \* a call of a function of utils.py: its name and arguments
    ret                   \* what the call returned

tables == <<inventory, batches, batch_ingredients, menu_items, menu_ingredients,
            menu_batch_portions, seq>>

vars == <<backend, sum_impl, tables_created, requests, inventory, batches, batch_ingredients,
          menu_items, menu_ingredients, menu_batch_portions, seq, call, ret>>

\* the most rows (and the highest id) each table holds in the model
MaxInventory == 4

MaxBatches == 2

MaxBatchIngredients == 4

MaxMenuItems == 2

MaxMenuIngredients == 2

MaxMenuBatchPortions == 3

\* the most requests of a run
MaxRequests == 4

\* the most data rows of an uploaded CSV file
MaxCsvRows == 2

MaxRows ==
    [inventory |-> MaxInventory, batches |-> MaxBatches,
     batch_ingredients |-> MaxBatchIngredients, menu_items |-> MaxMenuItems,
     menu_ingredients |-> MaxMenuIngredients,
     menu_batch_portions |-> MaxMenuBatchPortions]

TableNames == DOMAIN MaxRows

NoRows == [i \in {} |-> 0]

\* the database as one value, so that a handler is a function of it
DB ==
    [inventory |-> inventory, batches |-> batches,
     batch_ingredients |-> batch_ingredients, menu_items |-> menu_items,
     menu_ingredients |-> menu_ingredients,
     menu_batch_portions |-> menu_batch_portions, seq |-> seq]

\* db.session.commit() of the database d
Commit(d) ==
    /\ inventory' = d.inventory
    /\ batches' = d.batches
    /\ batch_ingredients' = d.batch_ingredients
    /\ menu_items' = d.menu_items
    /\ menu_ingredients' = d.menu_ingredients
    /\ menu_batch_portions' = d.menu_batch_portions
    /\ seq' = d.seq

InBounds(d) ==
    \A t \in TableNames :
        /\ d.seq[t] <= MaxRows[t]
        /\ \A id \in DOMAIN d[t] : id <= MaxRows[t]

MaxOf(S) == IF S = {} THEN 0 ELSE CHOOSE m \in S : \A x \in S : x <= m

MinOf(S) == CHOOSE m \in S : \A x \in S : m <= x

RECURSIVE SortedIds(_)
SortedIds(S) ==
    IF S = {} THEN <<>> ELSE <<MinOf(S)>> \o SortedIds(S \ {MinOf(S)})

\* the id an INSERT into table t gets: sqlite's rowid is one more than the
\* largest in the table, postgres takes the next value of the sequence
NewId(d, t) ==
    IF backend = "postgres" THEN d.seq[t] + 1 ELSE MaxOf(DOMAIN d[t]) + 1

\* db.session.add(row) and its flush
Insert(d, t, row) ==
    LET id == NewId(d, t)
    IN  [d EXCEPT ![t] = [i \in DOMAIN d[t] \cup {id} |->
                             IF i = id THEN row ELSE d[t][i]],
                  !.seq[t] = IF backend = "postgres" THEN id ELSE @]

\* an INSERT that the database refuses (IntegrityError): postgres has drawn
\* the id from the sequence by then, and the request changes nothing else
Refused(d, t) ==
    [d EXCEPT !.seq[t] = IF backend = "postgres" THEN @ + 1 ELSE @]

Delete(d, t, id) ==
    [d EXCEPT ![t] = [i \in DOMAIN d[t] \ {id} |-> d[t][i]]]

\* Model.query.filter_by(name=name).first(): the id of the row, or 0
ByName(tbl, name) ==
    LET ids == {i \in DOMAIN tbl : tbl[i].name = name}
    IN  IF ids = {} THEN 0 ELSE MinOf(ids)

\* foreign keys are enforced by postgres and, as the app opens it, not by sqlite
EnforcesForeignKeys == backend = "postgres"

ValidUnits == {"g", "kg", "oz", "lb", "ml", "l"}

\* str.strip() on the texts of the model
Strip(text) ==
    CASE text = " kg " -> "kg"
      [] text = " "    -> ""
      [] OTHER         -> text

\* float(text or 0)
FloatOrZero(text) == IF text = "" THEN F0 ELSE PyFloat(text)

\* ---- the models' properties ----

\* BatchIngredient.ext_cost and MenuIngredient.ext_cost of a line
InventoryLine_ext_cost(d, line) ==
    IF line.item_id \notin DOMAIN d.inventory THEN Raise("AttributeError")
    ELSE LET item == d.inventory[line.item_id]
             c    == unit_cost_in(item.unit_cost, item.unit, line.unit)
         IN  IF IsExc(c) THEN c ELSE FMul(c, line.qty)

BatchIngredient_ext_cost(d, id) ==
    InventoryLine_ext_cost(d, d.batch_ingredients[id])

MenuIngredient_ext_cost(d, id) ==
    InventoryLine_ext_cost(d, d.menu_ingredients[id])

\* BatchRecipe.ingredients: the lines of the batch, in id order
BatchRecipe_ingredients(d, batch_id) ==
    SortedIds({i \in DOMAIN d.batch_ingredients :
                  d.batch_ingredients[i].batch_id = batch_id})

BatchRecipe_total_cost(d, batch_id) ==
    LET ings == BatchRecipe_ingredients(d, batch_id)
    IN  PySum(sum_impl,
              [k \in 1..Len(ings) |-> BatchIngredient_ext_cost(d, ings[k])])

MenuBatchPortion_ext_cost(d, id) ==
    LET bp == d.menu_batch_portions[id]
    IN  IF bp.batch_id \notin DOMAIN d.batches THEN Raise("AttributeError")
        ELSE LET batch == d.batches[bp.batch_id]
             IN  IF ~same_dimension(bp.portion_unit, batch.yield_unit)
                 THEN Raise("ValueError")
                 ELSE LET portion_in_yield_unit ==
                              convert(bp.portion_qty, bp.portion_unit,
                                      batch.yield_unit)
                          share == FDiv(portion_in_yield_unit,
                                        PyOr(batch.yield_qty, F1))
                          total == BatchRecipe_total_cost(d, bp.batch_id)
                      IN  IF IsExc(portion_in_yield_unit)
                          THEN portion_in_yield_unit
                          ELSE IF IsExc(total) THEN total
                          ELSE FMul(share, total)

MenuItem_inv_components(d, menu_id) ==
    SortedIds({i \in DOMAIN d.menu_ingredients :
                  d.menu_ingredients[i].menu_id = menu_id})

MenuItem_batch_portions(d, menu_id) ==
    SortedIds({i \in DOMAIN d.menu_batch_portions :
                  d.menu_batch_portions[i].menu_id = menu_id})

\* MenuItem.cost without the batch portions
MenuItem_cost_inv_only(d, menu_id) ==
    LET cs == MenuItem_inv_components(d, menu_id)
    IN  PySum(sum_impl,
              [k \in 1..Len(cs) |-> MenuIngredient_ext_cost(d, cs[k])])

MenuItem_cost(d, menu_id) ==
    LET cs       == MenuItem_inv_components(d, menu_id)
        bps      == MenuItem_batch_portions(d, menu_id)
        inv_cost == PySum(sum_impl,
                          [k \in 1..Len(cs) |-> MenuIngredient_ext_cost(d, cs[k])])
        batch_cost ==
            PySum(sum_impl,
                  [k \in 1..Len(bps) |-> MenuBatchPortion_ext_cost(d, bps[k])])
    IN  PyAdd(inv_cost, batch_cost)

\* ------------------------------------------------------------------------
\* app.py: the request handlers, as functions from the database before the
\* request to the database after it.  A request that ends in an error page
\* (a 404, a ValueError of float(), an IntegrityError) commits nothing.
\* ------------------------------------------------------------------------

maybe_seed(d) ==
    IF DOMAIN d.inventory # {} THEN d
    ELSE LET d1 == Insert(d, "inventory",
                     [name |-> "Rice", unit |-> "g",
                      unit_cost |-> Numeral("0.003")])
             rice == NewId(d, "inventory")
             d2 == Insert(d1, "inventory",
                     [name |-> "Chicken", unit |-> "lb",
                      unit_cost |-> Numeral("2.50")])
             chicken == NewId(d1, "inventory")
             d3 == Insert(d2, "inventory",
                     [name |-> "Olive Oil", unit |-> "ml",
                      unit_cost |-> Numeral("0.004")])
             oil == NewId(d2, "inventory")
             d4 == Insert(d3, "batches",
                     [name |-> "Chicken Shawarma Marinade",
                      yield_qty |-> Numeral("18144"),
                      yield_unit |-> "g"])
             shawarma == NewId(d3, "batches")
             d5 == Insert(d4, "batch_ingredients",
                     [batch_id |-> shawarma, item_id |-> chicken,
                      qty |-> Numeral("40"), unit |-> "lb"])
             d6 == Insert(d5, "batch_ingredients",
                     [batch_id |-> shawarma, item_id |-> oil,
                      qty |-> Numeral("500"), unit |-> "ml"])
             d7 == Insert(d6, "menu_items",
                     [name |-> "Shawarma Plate",
                      price |-> Numeral("16.99")])
             plate == NewId(d6, "menu_items")
             d8 == Insert(d7, "menu_ingredients",
                     [menu_id |-> plate, item_id |-> rice,
                      qty |-> Numeral("180"), unit |-> "g"])
         IN  Insert(d8, "menu_batch_portions",
                    [menu_id |-> plate, batch_id |-> shawarma,
                     portion_qty |-> Numeral("180"), portion_unit |-> "g"])

inventory_post(d, form) ==
    LET name      == Strip(form.name)
        unit      == Lower(Strip(form.unit))
        unit_cost == FloatOrZero(form.unit_cost)
    IN  IF IsExc(unit_cost) THEN d
        ELSE IF unit \notin ValidUnits THEN d
        ELSE IF ByName(d.inventory, name) # 0 THEN Refused(d, "inventory")
        ELSE Insert(d, "inventory",
                    [name |-> name, unit |-> unit, unit_cost |-> unit_cost])

delete_inventory(d, item_id) ==
    IF item_id \notin DOMAIN d.inventory THEN d
    ELSE IF EnforcesForeignKeys
            /\ (\/ \E i \in DOMAIN d.batch_ingredients :
                      d.batch_ingredients[i].item_id = item_id
                \/ \E i \in DOMAIN d.menu_ingredients :
                      d.menu_ingredients[i].item_id = item_id)
         THEN d
    ELSE Delete(d, "inventory", item_id)

batches_post(d, form) ==
    LET name       == Strip(form.name)
        yield_qty  == PyFloat(form.yield_qty)
        yield_unit == Lower(Strip(form.yield_unit))
    IN  IF IsExc(yield_qty) THEN d
        ELSE IF yield_unit \notin ValidUnits THEN d
        ELSE IF ByName(d.batches, name) # 0 THEN Refused(d, "batches")
        ELSE Insert(d, "batches",
                    [name |-> name, yield_qty |-> yield_qty,
                     yield_unit |-> yield_unit])

add_batch_ingredient(d, batch_id, form) ==
    LET qty  == PyFloat(form.qty)
        unit == Lower(Strip(form.unit))
    IN  IF batch_id \notin DOMAIN d.batches THEN d
        ELSE IF IsExc(qty) THEN d
        ELSE IF EnforcesForeignKeys /\ form.item_id \notin DOMAIN d.inventory
             THEN Refused(d, "batch_ingredients")
        ELSE Insert(d, "batch_ingredients",
                    [batch_id |-> batch_id, item_id |-> form.item_id,
                     qty |-> qty, unit |-> unit])

delete_batch_ingredient(d, ing_id) ==
    IF ing_id \notin DOMAIN d.batch_ingredients THEN d
    ELSE Delete(d, "batch_ingredients", ing_id)

menu_items_post(d, form) ==
    LET name  == Strip(form.name)
        price == PyFloat(form.price)
    IN  IF IsExc(price) THEN d
        ELSE IF ByName(d.menu_items, name) # 0 THEN Refused(d, "menu_items")
        ELSE Insert(d, "menu_items", [name |-> name, price |-> price])

add_menu_ingredient(d, menu_id, form) ==
    LET qty  == PyFloat(form.qty)
        unit == Lower(Strip(form.unit))
    IN  IF menu_id \notin DOMAIN d.menu_items THEN d
        ELSE IF IsExc(qty) THEN d
        ELSE IF EnforcesForeignKeys /\ form.item_id \notin DOMAIN d.inventory
             THEN Refused(d, "menu_ingredients")
        ELSE Insert(d, "menu_ingredients",
                    [menu_id |-> menu_id, item_id |-> form.item_id,
                     qty |-> qty, unit |-> unit])

add_menu_batch_portion(d, menu_id, form) ==
    LET portion_qty  == PyFloat(form.portion_qty)
        portion_unit == Lower(Strip(form.portion_unit))
    IN  IF menu_id \notin DOMAIN d.menu_items THEN d
        ELSE IF IsExc(portion_qty) THEN d
        ELSE IF EnforcesForeignKeys /\ form.batch_id \notin DOMAIN d.batches
             THEN Refused(d, "menu_batch_portions")
        ELSE Insert(d, "menu_batch_portions",
                    [menu_id |-> menu_id, batch_id |-> form.batch_id,
                     portion_qty |-> portion_qty, portion_unit |-> portion_unit])

delete_component(d, kind, comp_id) ==
    LET t == IF kind = "inventory" THEN "menu_ingredients"
             ELSE "menu_batch_portions"
    IN  IF comp_id \notin DOMAIN d[t] THEN d ELSE Delete(d, t, comp_id)

\* the rows of inventory.csv, in file order
RECURSIVE inventory_import_csv(_, _)
inventory_import_csv(d, rows) ==
    IF rows = <<>> THEN d
    ELSE LET row       == Head(rows)
             name      == Strip(row.name)
             unit      == Lower(Strip(row.unit))
             parsed    == FloatOrZero(row.unit_cost)
             unit_cost == IF IsExc(parsed) THEN F0 ELSE parsed
             obj       == ByName(d.inventory, name)
         IN  IF name = "" \/ unit \notin ValidUnits
             THEN inventory_import_csv(d, Tail(rows))
             ELSE IF obj # 0
             THEN inventory_import_csv(
                      [d EXCEPT !.inventory[obj].unit = unit,
                                !.inventory[obj].unit_cost = unit_cost],
                      Tail(rows))
             ELSE inventory_import_csv(
                      Insert(d, "inventory",
                             [name |-> name, unit |-> unit,
                              unit_cost |-> unit_cost]),
                      Tail(rows))

\* the rows of the recipes file of /batches/import.csv
RECURSIVE import_recipes(_, _)
import_recipes(d, rows) ==
    IF rows = <<>> THEN d
    ELSE LET row        == Head(rows)
             name       == Strip(row.name)
             parsed     == FloatOrZero(row.yield_qty)
             yield_qty  == IF IsExc(parsed) THEN F0 ELSE parsed
             unit       == Lower(Strip(row.yield_unit))
             yield_unit == IF unit = "" THEN "g" ELSE unit
             obj        == ByName(d.batches, name)
         IN  IF name = "" THEN import_recipes(d, Tail(rows))
             ELSE IF obj # 0
             THEN import_recipes(
                      [d EXCEPT !.batches[obj].yield_qty =
                                    IF Truthy(yield_qty) THEN yield_qty ELSE @,
                                !.batches[obj].yield_unit = yield_unit],
                      Tail(rows))
             ELSE import_recipes(
                      Insert(d, "batches",
                             [name |-> name, yield_qty |-> yield_qty,
                              yield_unit |-> yield_unit]),
                      Tail(rows))

\* the rows of the ingredients file of /batches/import.csv
RECURSIVE import_ingredients(_, _)
import_ingredients(d, rows) ==
    IF rows = <<>> THEN d
    ELSE LET row    == Head(rows)
             bname  == Strip(row.batch_name)
             iname  == Strip(row.item_name)
             parsed == FloatOrZero(row.qty)
             qty    == IF IsExc(parsed) THEN F0 ELSE parsed
             low    == Lower(Strip(row.unit))
             unit   == IF low = "" THEN "g" ELSE low
             b      == ByName(d.batches, bname)
             d1     == IF b # 0 THEN d
                       ELSE Insert(d, "batches",
                                   [name |-> bname, yield_qty |-> F1,
                                    yield_unit |-> unit])
             b_id   == IF b # 0 THEN b ELSE NewId(d, "batches")
             it     == ByName(d1.inventory, iname)
             d2     == IF it # 0 THEN d1
                       ELSE Insert(d1, "inventory",
                                   [name |-> iname, unit |-> unit,
                                    unit_cost |-> F0])
             it_id  == IF it # 0 THEN it ELSE NewId(d1, "inventory")
         IN  IF bname = "" \/ iname = "" THEN import_ingredients(d, Tail(rows))
             ELSE import_ingredients(
                      Insert(d2, "batch_ingredients",
                             [batch_id |-> b_id, item_id |-> it_id,
                              qty |-> qty, unit |-> unit]),
                      Tail(rows))

batches_import_csv(d, recipes, ingredients) ==
    import_ingredients(import_recipes(d, recipes), ingredients)

\* ------------------------------------------------------------------------
\* The routes as actions.  Every request passes _ensure_tables_and_auth
\* first; the handlers are those of a signed-in session.  The first request
\* of the process creates the tables and seeds the empty database.
\* ------------------------------------------------------------------------

Idle == [fn |-> "none"]

\* a write request that leaves the database d behind
Request(d) ==
    /\ tables_created
    /\ requests < MaxRequests
    /\ requests' = requests + 1
    /\ InBounds(d)
    /\ Commit(d)
    /\ UNCHANGED <<backend, sum_impl, tables_created, call, ret>>

FirstRequest ==
    /\ ~tables_created
    /\ call = Idle
    /\ tables_created' = TRUE
    /\ requests' = requests + 1
    /\ Commit(maybe_seed(DB))
    /\ UNCHANGED <<backend, sum_impl, call, ret>>

InventoryPost(form) == Request(inventory_post(DB, form))

DeleteInventory(item_id) == Request(delete_inventory(DB, item_id))

BatchesPost(form) == Request(batches_post(DB, form))

AddBatchIngredient(batch_id, form) ==
    Request(add_batch_ingredient(DB, batch_id, form))

DeleteBatchIngredient(ing_id) == Request(delete_batch_ingredient(DB, ing_id))

MenuItemsPost(form) == Request(menu_items_post(DB, form))

AddMenuIngredient(menu_id, form) ==
    Request(add_menu_ingredient(DB, menu_id, form))

AddMenuBatchPortion(menu_id, form) ==
    Request(add_menu_batch_portion(DB, menu_id, form))

DeleteComponent(kind, comp_id) == Request(delete_component(DB, kind, comp_id))

InventoryImportCsv(rows) == Request(inventory_import_csv(DB, rows))

BatchesImportCsv(recipes, ingredients) ==
    Request(batches_import_csv(DB, recipes, ingredients))

\* the files of at most MaxCsvRows data rows over a set of rows
CsvFiles(rows) == UNION {[1..k -> rows] : k \in 0..MaxCsvRows}

\* the ids a request may name: those a table can hold, and one beyond
Ids(t) == 1..(MaxRows[t] + 1)

\* the requests over the inputs in: the forms and CSV rows users send
Requests(in) ==
    \/ FirstRequest
    \/ \E form \in in.inventory_forms : InventoryPost(form)
    \/ \E item_id \in Ids("inventory") : DeleteInventory(item_id)
    \/ \E form \in in.batch_forms : BatchesPost(form)
    \/ \E batch_id \in Ids("batches"), form \in in.line_forms :
           AddBatchIngredient(batch_id, form)
    \/ \E ing_id \in Ids("batch_ingredients") : DeleteBatchIngredient(ing_id)
    \/ \E form \in in.menu_forms : MenuItemsPost(form)
    \/ \E menu_id \in Ids("menu_items"), form \in in.line_forms :
           AddMenuIngredient(menu_id, form)
    \/ \E menu_id \in Ids("menu_items"), form \in in.portion_forms :
           AddMenuBatchPortion(menu_id, form)
    \/ \E kind \in {"inventory", "batch"}, comp_id \in Ids("menu_ingredients") :
           DeleteComponent(kind, comp_id)
    \/ \E rows \in CsvFiles(in.inventory_rows) : InventoryImportCsv(rows)
    \/ \E recipes \in CsvFiles(in.recipe_rows),
          ingredients \in CsvFiles(in.ingredient_rows) :
           BatchesImportCsv(recipes, ingredients)

Inputs ==
    [inventory_forms |->
        {[name |-> "Salt", unit |-> " kg ", unit_cost |-> "1"],
         [name |-> "Salt", unit |-> "cup", unit_cost |-> "1"],
         [name |-> "Rice", unit |-> "g", unit_cost |-> "abc"]},
     batch_forms |->
        {[name |-> "Stock", yield_qty |-> "0", yield_unit |-> "L"],
         [name |-> "Stock", yield_qty |-> "2", yield_unit |-> "cup"]},
     line_forms |->
        {[item_id |-> 1, qty |-> "3", unit |-> "oz"],
         [item_id |-> 1, qty |-> "10", unit |-> "kg"]},
     portion_forms |->
        {[batch_id |-> 1, portion_qty |-> "3", portion_unit |-> "ml"],
         [batch_id |-> 1, portion_qty |-> "3", portion_unit |-> "oz"],
         [batch_id |-> 2, portion_qty |-> "10", portion_unit |-> "l"]},
     menu_forms |-> {[name |-> "Soup", price |-> "10"]},
     inventory_rows |->
        {[name |-> "Salt", unit |-> "KG", unit_cost |-> "2.5"],
         [name |-> "Rice", unit |-> "cup", unit_cost |-> "1"]},
     recipe_rows |->
        {[name |-> "Chicken Shawarma Marinade", yield_qty |-> "-1",
          yield_unit |-> "g"]},
     ingredient_rows |->
        {[batch_name |-> "Stock", item_name |-> "Salt", qty |-> "1",
          unit |-> "cup"]}]

Init ==
    /\ backend \in {"sqlite", "postgres"}
    /\ sum_impl \in {"naive", "neumaier"}
    /\ tables_created = FALSE
    /\ requests = 0
    /\ inventory = NoRows
    /\ batches = NoRows
    /\ batch_ingredients = NoRows
    /\ menu_items = NoRows
    /\ menu_ingredients = NoRows
    /\ menu_batch_portions = NoRows
    /\ seq = [t \in TableNames |-> 0]
    /\ call = Idle
    /\ ret = None

Next == Requests(Inputs)

Spec == Init /\ [][Next]_vars

\* ------------------------------------------------------------------------
\* utils.py called on its own: a behaviour is one call, on units from
\* UnitStrings and values from CallValues, which call and ret record, and
\* for convert the call back that a round trip makes.
\* ------------------------------------------------------------------------

CallValues == {Numeral(t) : t \in {"0", "1", "-1", "2.5", "1000", "0.003"}}

CallSameDimension(u1, u2) ==
    /\ call = Idle
    /\ call' = [fn |-> "same_dimension", u1 |-> u1, u2 |-> u2]
    /\ ret' = same_dimension(u1, u2)
    /\ UNCHANGED <<backend, sum_impl, tables_created, requests, tables>>

CallConvert(value, from_unit, to_unit) ==
    /\ call = Idle
    /\ call' = [fn |-> "convert", value |-> value, u1 |-> from_unit,
                u2 |-> to_unit]
    /\ ret' = convert(value, from_unit, to_unit)
    /\ UNCHANGED <<backend, sum_impl, tables_created, requests, tables>>

\* convert(convert(x, a, b), b, a): the second call, on the first one's result
CallConvertBack ==
    /\ call.fn = "convert"
    /\ IsFloat(ret)
    /\ call' = [call EXCEPT !.fn = "convert_back"]
    /\ ret' = convert(ret, call.u2, call.u1)
    /\ UNCHANGED <<backend, sum_impl, tables_created, requests, tables>>

CallUnitCostIn(unit_cost, item_unit, target_unit) ==
    /\ call = Idle
    /\ call' = [fn |-> "unit_cost_in", value |-> unit_cost, u1 |-> item_unit,
                u2 |-> target_unit]
    /\ ret' = unit_cost_in(unit_cost, item_unit, target_unit)
    /\ UNCHANGED <<backend, sum_impl, tables_created, requests, tables>>

UtilInit ==
    /\ backend = "sqlite"
    /\ sum_impl = "naive"
    /\ tables_created = FALSE
    /\ requests = 0
    /\ inventory = NoRows
    /\ batches = NoRows
    /\ batch_ingredients = NoRows
    /\ menu_items = NoRows
    /\ menu_ingredients = NoRows
    /\ menu_batch_portions = NoRows
    /\ seq = [t \in TableNames |-> 0]
    /\ call = Idle
    /\ ret = None

UtilNext ==
    \/ \E u1 \in UnitStrings, u2 \in UnitStrings : CallSameDimension(u1, u2)
    \/ \E value \in CallValues, u1 \in UnitStrings, u2 \in UnitStrings :
           CallConvert(value, u1, u2)
    \/ CallConvertBack
    \/ \E value \in CallValues, u1 \in UnitStrings, u2 \in UnitStrings :
           CallUnitCostIn(value, u1, u2)

UtilSpec == UtilInit /\ [][UtilNext]_vars

\* ------------------------------------------------------------------------
\* The claims.  The partitions are those the specification names.
\* ------------------------------------------------------------------------

MassUnits == {"g", "kg", "oz", "lb"}

VolumeUnits == {"ml", "l"}

KnownUnit(u) == Lower(u) \in MassUnits \cup VolumeUnits

SamePartition(u1, u2) ==
    \/ Lower(u1) \in MassUnits /\ Lower(u2) \in MassUnits
    \/ Lower(u1) \in VolumeUnits /\ Lower(u2) \in VolumeUnits

\* x <= 0 for a float
NonPositive(x) == IsZero(x) \/ x.sgn = 1

\* a == b for what two evaluations yield: == on floats, the same exception
Same(a, b) == IF IsFloat(a) /\ IsFloat(b) THEN FEq(a, b) ELSE a = b

\* C3: for every batch whose yield quantity is zero or negative, the
\* extended cost of every line that portions the batch is exactly zero (no
\* error, no non-zero cost), and MenuItem.cost counts the line as zero: the
\* menu item costs what it costs without the line.
C3_NonPositiveYieldCostsZero ==
    \A id \in DOMAIN menu_batch_portions :
        LET bp == menu_batch_portions[id]
        IN  (bp.batch_id \in DOMAIN batches
             /\ NonPositive(batches[bp.batch_id].yield_qty))
            => /\ MenuBatchPortion_ext_cost(DB, id) \in {FZero(0), FZero(1)}
               /\ bp.menu_id \in DOMAIN menu_items
                  => Same(MenuItem_cost(DB, bp.menu_id),
                          MenuItem_cost(Delete(DB, "menu_batch_portions", id),
                                        bp.menu_id))

\* C4 as stated: convert and unit_cost_in raise ValueError for every pair of
\* units that same_dimension does not hold of (a mass and a volume unit, a
\* unit outside the six, two identical unsupported units), so they return a
\* number only for a same-dimension pair.
C4_RaisesUnlessSameDimension ==
    call.fn \in {"convert", "unit_cost_in"}
    => (~SamePartition(call.u1, call.u2) => ret = Raise("ValueError"))

\* C4 amended: convert and unit_cost_in return a number only when the units
\* are of the same dimension or are the same string up to case, and then, for
\* the same string, the value they were given; for every other pair they
\* raise ValueError.
C4_RaisesUnlessSameDimensionOrSameUnit ==
    call.fn \in {"convert", "unit_cost_in"}
    => /\ (~SamePartition(call.u1, call.u2) /\ Lower(call.u1) # Lower(call.u2))
          => ret = Raise("ValueError")
       /\ Lower(call.u1) = Lower(call.u2) => ret = call.value
       /\ IsFloat(ret)
          => SamePartition(call.u1, call.u2) \/ Lower(call.u1) = Lower(call.u2)

\* convert and unit_cost_in have refused a mass/volume pair and an unknown unit
C4_Witness ==
    /\ call.fn \in {"convert", "unit_cost_in"}
    /\ call.u1 = "cup"
    /\ call.u2 = "KG"
    /\ ret = Raise("ValueError")

\* C5: for every value x and units a, b of the same dimension,
\* convert(convert(x, a, b), b, a) == x.
C5_RoundTrip ==
    (call.fn = "convert_back" /\ SamePartition(call.u1, call.u2))
    => (IsFloat(ret) /\ FEq(ret, call.value))

\* C6: same_dimension(u1, u2) is true iff both units, compared without case,
\* are in the same partition, mass or volume: false for ('g', 'ml'), true for
\* ('g', 'lb'), false whenever either unit is outside both partitions.
C6_SameDimensionIffSamePartition ==
    call.fn = "same_dimension"
    => /\ ret = SamePartition(call.u1, call.u2)
       /\ (call.u1 = "g" /\ call.u2 = "ml") => ret = FALSE
       /\ (call.u1 = "g" /\ call.u2 = "lb") => ret = TRUE
       /\ (~KnownUnit(call.u1) \/ ~KnownUnit(call.u2)) => ret = FALSE

\* same_dimension has answered for two mass units that differ in case
C6_Witness ==
    /\ call.fn = "same_dimension"
    /\ call.u1 = "KG"
    /\ call.u2 = "lb"
    /\ ret = TRUE

\* C7: every stored InventoryItem has a storage unit of the fixed set
\* {g, kg, oz, lb, ml, l}, in every state the write routes reach.
C7_InventoryUnitsValid ==
    \A id \in DOMAIN inventory :
        inventory[id].unit \in MassUnits \cup VolumeUnits

\* a * b and a / b where an operand may have raised
Times(a, b) == IF IsExc(a) THEN a ELSE IF IsExc(b) THEN b ELSE FMul(a, b)

Over(a, b) == IF IsExc(a) THEN a ELSE IF IsExc(b) THEN b ELSE FDiv(a, b)

\* the inventory lines of both kinds whose item exists
InventoryLines ==
    {l \in {batch_ingredients[i] : i \in DOMAIN batch_ingredients}
           \cup {menu_ingredients[i] : i \in DOMAIN menu_ingredients} :
        l.item_id \in DOMAIN inventory}

\* the line's quantity in the item's storage unit
InStorageUnit(l) == convert(l.qty, l.unit, inventory[l.item_id].unit)

\* C8: the extended cost of an inventory line is
\* unit_cost_in(item.unit_cost, item.unit, line.unit) * line.qty; for a line
\* unit of the item unit's dimension this is item.unit_cost times the line's
\* quantity converted into the item's storage unit, so two lines of an item
\* that hold the same physical quantity have the same extended cost.
C8_ExtCostIsUnitCostTimesQuantity ==
    \A l \in InventoryLines :
        LET item == inventory[l.item_id]
            e    == InventoryLine_ext_cost(DB, l)
        IN  /\ Same(e, Times(unit_cost_in(item.unit_cost, item.unit, l.unit),
                             l.qty))
            /\ SamePartition(item.unit, l.unit)
               => /\ Same(e, Times(item.unit_cost, InStorageUnit(l)))
                  /\ \A m \in InventoryLines :
                         (/\ m.item_id = l.item_id
                          /\ SamePartition(item.unit, m.unit)
                          /\ Same(InStorageUnit(m), InStorageUnit(l)))
                         => Same(InventoryLine_ext_cost(DB, m), e)

\* the database after the step
DBNext ==
    [inventory |-> inventory', batches |-> batches',
     batch_ingredients |-> batch_ingredients', menu_items |-> menu_items',
     menu_ingredients |-> menu_ingredients',
     menu_batch_portions |-> menu_batch_portions', seq |-> seq']

\* the extended costs of the lines of a batch, in the order of the sum
LineCosts(d, batch_id) ==
    LET ings == BatchRecipe_ingredients(d, batch_id)
    IN  [k \in 1..Len(ings) |-> InventoryLine_ext_cost(d, d.batch_ingredients[ings[k]])]

\* large is small changed by exactly e: large == small + e, or the same
\* stated as a difference
DiffersBy(small, large, e) ==
    \/ FEq(FAdd(small, e), large)
    \/ FEq(FSub(large, small), e)
    \/ FEq(FSub(large, e), small)

\* total_cost of the batch is the sum of its lines' extended costs, whatever
\* its yield; one line of 10 units of a $1 item costs 10
C9_TotalIsSumOfLines ==
    \A b \in DOMAIN batches :
        LET total == BatchRecipe_total_cost(DB, b)
            costs == LineCosts(DB, b)
        IN  /\ Same(total, PySum(sum_impl, costs))
            /\ costs = <<>> => total = F0
            /\ \A y \in {Numeral("0"), Numeral("1"), Numeral("-1")} :
                   Same(BatchRecipe_total_cost(
                            [DB EXCEPT !.batches[b].yield_qty = y], b), total)
            /\ \A l \in InventoryLines :
                   (/\ Len(costs) = 1
                    /\ \E i \in DOMAIN batch_ingredients :
                           batch_ingredients[i] = l /\ l.batch_id = b
                    /\ Lower(l.unit) = Lower(inventory[l.item_id].unit)
                    /\ FEq(inventory[l.item_id].unit_cost, Numeral("1"))
                    /\ FEq(l.qty, Numeral("10")))
                   => Same(total, Numeral("10"))

\* a step that adds one line to a batch or deletes one line of it, and
\* leaves the batch's other lines and the inventory as they were, changes
\* total_cost by exactly the extended cost of that line
C9_LineChangesTotalByItsCost ==
    \A b \in DOMAIN batches :
        \A i \in DOMAIN batch_ingredients \cup DOMAIN batch_ingredients' :
            LET added   == i \notin DOMAIN batch_ingredients
                deleted == i \notin DOMAIN batch_ingredients'
                line    == IF added THEN batch_ingredients'[i]
                           ELSE batch_ingredients[i]
                e       == InventoryLine_ext_cost(IF added THEN DBNext ELSE DB,
                                                  line)
                before  == BatchRecipe_total_cost(DB, b)
                after   == BatchRecipe_total_cost(DBNext, b)
            IN  (/\ added # deleted
                 /\ line.batch_id = b
                 /\ b \in DOMAIN batches'
                 /\ inventory' = inventory
                 /\ \A j \in (DOMAIN batch_ingredients
                                  \cup DOMAIN batch_ingredients') \ {i} :
                        /\ j \in DOMAIN batch_ingredients
                        /\ j \in DOMAIN batch_ingredients'
                        /\ batch_ingredients'[j] = batch_ingredients[j]
                 /\ IsFloat(e) /\ IsFloat(before) /\ IsFloat(after))
                => IF added THEN DiffersBy(before, after, e)
                   ELSE DiffersBy(after, before, e)

\* C9: for a batch of inventory-ingredient lines, total_cost is the sum of
\* the extended costs of its current lines (0 without lines), independent of
\* the yield; one ingredient at $1 per unit and quantity 10 gives 10; adding
\* or deleting a line changes total_cost by exactly that line's extended cost.
C9_TotalCostOfIngredients ==
    /\ []C9_TotalIsSumOfLines
    /\ [][C9_LineChangesTotalByItsCost]_vars

\* ---- C10 ----

\* the lines of a menu item and of the batches it portions all refer to
\* rows that exist
Resolved(m) ==
    /\ \A i \in DOMAIN menu_ingredients :
           menu_ingredients[i].menu_id = m
           => menu_ingredients[i].item_id \in DOMAIN inventory
    /\ \A i \in DOMAIN menu_batch_portions :
           menu_batch_portions[i].menu_id = m
           => /\ menu_batch_portions[i].batch_id \in DOMAIN batches
              /\ \A j \in DOMAIN batch_ingredients :
                     batch_ingredients[j].batch_id
                         = menu_batch_portions[i].batch_id
                     => batch_ingredients[j].item_id \in DOMAIN inventory

Positive(x) == ~IsZero(x) /\ x.sgn = 0

\* unit_cost_in(item.unit_cost, item.unit, line.unit) * line.qty
LineCost(l) ==
    Times(unit_cost_in(inventory[l.item_id].unit_cost,
                       inventory[l.item_id].unit, l.unit), l.qty)

\* (portion quantity converted to the batch's yield unit / yield quantity)
\* x the batch's total cost, the sum of its lines' costs
PortionCost(bp) ==
    LET batch == batches[bp.batch_id]
        ings  == BatchRecipe_ingredients(DB, bp.batch_id)
        total == PySum(sum_impl,
                       [k \in 1..Len(ings) |-> LineCost(batch_ingredients[ings[k]])])
    IN  Times(Over(convert(bp.portion_qty, bp.portion_unit, batch.yield_unit),
                   batch.yield_qty),
              total)

PortionsOf(m) ==
    {i \in DOMAIN menu_batch_portions : menu_batch_portions[i].menu_id = m}

DifferentDimension(u1, u2) ==
    KnownUnit(u1) /\ KnownUnit(u2) /\ ~SamePartition(u1, u2)

\* C10: MenuItem.cost is the sum of its inventory lines' extended costs plus
\* the sum of its batch-portion lines' extended costs, a portion of a batch
\* of positive yield in a unit of the yield unit's dimension costing
\* (portion converted to the yield unit / yield quantity) x the batch's
\* total_cost; with a portion line in a unit of a different dimension from
\* the batch's yield unit, MenuItem.cost raises.
C10_MenuItemCost ==
    \A m \in DOMAIN menu_items :
        LET cs   == MenuItem_inv_components(DB, m)
            bps  == MenuItem_batch_portions(DB, m)
            cost == MenuItem_cost(DB, m)
            sum  == PyAdd(PySum(sum_impl,
                                [k \in 1..Len(cs) |->
                                    LineCost(menu_ingredients[cs[k]])]),
                          PySum(sum_impl,
                                [k \in 1..Len(bps) |->
                                    PortionCost(menu_batch_portions[bps[k]])]))
        IN  Resolved(m)
            => /\ (\E i \in PortionsOf(m) :
                       DifferentDimension(
                           menu_batch_portions[i].portion_unit,
                           batches[menu_batch_portions[i].batch_id].yield_unit))
                  => IsExc(cost)
               /\ (\A i \in PortionsOf(m) :
                       /\ SamePartition(
                              menu_batch_portions[i].portion_unit,
                              batches[menu_batch_portions[i].batch_id].yield_unit)
                       /\ Positive(batches[menu_batch_portions[i].batch_id].yield_qty))
                  => Same(cost, sum)

\* one menu item costs a number with a portion entered in another unit of the
\* yield unit's dimension, and another raises over a portion in a unit of the
\* other dimension
C10_Witness ==
    /\ \E m \in DOMAIN menu_items :
           /\ Resolved(m)
           /\ IsFloat(MenuItem_cost(DB, m))
           /\ MenuItem_inv_components(DB, m) # <<>>
           /\ \E i \in PortionsOf(m) :
                  LET bp == menu_batch_portions[i]
                  IN  /\ Lower(bp.portion_unit) # batches[bp.batch_id].yield_unit
                      /\ SamePartition(bp.portion_unit,
                                       batches[bp.batch_id].yield_unit)
    /\ \E m \in DOMAIN menu_items :
           /\ Resolved(m)
           /\ IsExc(MenuItem_cost(DB, m))
           /\ \E i \in PortionsOf(m) :
                  DifferentDimension(
                      menu_batch_portions[i].portion_unit,
                      batches[menu_batch_portions[i].batch_id].yield_unit)

\* C11: every BatchIngredient and MenuIngredient refers to an InventoryItem
\* that exists and every MenuBatchPortion to a BatchRecipe that exists, in
\* every state the add, delete and CSV-import routes reach, so that ext_cost,
\* BatchRecipe.total_cost and MenuItem.cost never dereference a missing row.
C11_NoDanglingReferences ==
    /\ \A i \in DOMAIN batch_ingredients :
           /\ batch_ingredients[i].item_id \in DOMAIN inventory
           /\ BatchIngredient_ext_cost(DB, i) # Raise("AttributeError")
    /\ \A i \in DOMAIN menu_ingredients :
           /\ menu_ingredients[i].item_id \in DOMAIN inventory
           /\ MenuIngredient_ext_cost(DB, i) # Raise("AttributeError")
    /\ \A i \in DOMAIN menu_batch_portions :
           /\ menu_batch_portions[i].batch_id \in DOMAIN batches
           /\ MenuBatchPortion_ext_cost(DB, i) # Raise("AttributeError")
    /\ \A b \in DOMAIN batches :
           BatchRecipe_total_cost(DB, b) # Raise("AttributeError")
    /\ \A m \in DOMAIN menu_items :
           MenuItem_cost(DB, m) # Raise("AttributeError")

====
